---------------------------- MODULE Spec2Model ----------------------------
(***************************************************************************)
(* A model of src/app.py, the PDF -> PowerPoint converter: the edit-mode   *)
(* conversion loop (convert_edit_mode), the text erasure of the rendered   *)
(* page (render_page_without_text), the recognition fallback               *)
(* (_get_ocr_bboxes, ocr_page_to_textboxes) and the pure helpers           *)
(* (clean_font_name, is_background_image).                                 *)
(*                                                                         *)
(* Numbers.  Python floats are modelled by exact rational arithmetic on    *)
(* integers.  Page-space coordinates (PDF points) are held in units of     *)
(* 1/PtUnit point, which makes the recognizer's pixel -> point conversion  *)
(* (72/200 = 9/25 point per pixel) exact; int(x) is truncation towards 0   *)
(* (Trunc).  Strings are sequences of one-character strings.               *)
(***************************************************************************)
EXTENDS Integers, Sequences, FiniteSets, TLC

VARIABLES
    \* ---- capability flags and the conversion (convert_edit_mode) ----
    NUMPY_AVAILABLE,          \* app.py:16-20
    OCR_AVAILABLE,            \* app.py:22-27
    dpi,                      \* the resolution setting (app.py:103-108)
    pc,                       \* position in the conversion
    num_pages,                \* len(doc)
    page_idx,                 \* index of the page in the loop (0-based)
    page,                     \* the page of the loop: size, text blocks, images
    slide_w_emu, slide_h_emu, \* the canvas, from the first page
    text_blocks,              \* the structural blocks kept by the filter
    use_ocr,                  \* len(text_blocks) == 0
    block_bboxes_for_render,  \* the boxes handed to the erasure
    slide,                    \* the slide of the page in the loop, with its shapes
    prs,                      \* the slides finished so far
    total_textboxes,          \* the running count of text boxes
    ocr_calls,                \* every call of the recognition engine, in order
    error,                    \* the exception that ended the conversion, or "none"
    \* ---- clean_font_name ----
    raw_name, cleaned,
    \* ---- is_background_image ----
    image, is_bg,
    \* ---- the grouping loops of the two recognition passes ----
    data, tb_lines, bb_lines,
    \* ---- render_page_without_text ----
    pix,                      \* the rendered page: w, h and the pixels
    img_arr,                  \* the working copy the boxes are filled in
    erase_bboxes,             \* the boxes iterated so far
    fills,                    \* per box: skipped, number of samples, fill colour
    \* ---- set once the function under study has been applied ----
    applied

pipeVars  == <<NUMPY_AVAILABLE, OCR_AVAILABLE, pc, num_pages, page_idx, page,
               slide_w_emu, slide_h_emu, text_blocks, use_ocr,
               block_bboxes_for_render, slide, prs, total_textboxes,
               ocr_calls, error>>
fontVars  == <<raw_name, cleaned>>
classVars == <<image, is_bg>>
ocrVars   == <<data, tb_lines, bb_lines>>
eraseVars == <<pix, img_arr, erase_bboxes, fills>>
vars      == <<pipeVars, dpi, fontVars, classVars, ocrVars, eraseVars, applied>>

----------------------------------------------------------------------------
(* Arithmetic and sequences *)

Max(a, b) == IF a >= b THEN a ELSE b
Min(a, b) == IF a <= b THEN a ELSE b

\* int(a / b) for b > 0: Python's int() truncates towards zero.
Trunc(a, b) == IF a >= 0 THEN a \div b ELSE -((-a) \div b)

\* All sequences over S of length at most n.
SeqsUpTo(S, n) == UNION {[1..k -> S] : k \in 0..n}

RECURSIVE SumSeq(_)
SumSeq(s) == IF s = <<>> THEN 0 ELSE Head(s) + SumSeq(Tail(s))

RECURSIVE Concat(_)
Concat(ss) == IF ss = <<>> THEN <<>> ELSE Head(ss) \o Concat(Tail(ss))

----------------------------------------------------------------------------
(* Strings *)

Whitespace == {" ", "\t", "\n"}

Contains(s, c) == \E i \in 1..Len(s) : s[i] = c

\* The index of the first c in s (s contains c).
IndexOf(s, c) == CHOOSE i \in 1..Len(s) : s[i] = c /\ \A j \in 1..(i-1) : s[j] # c

\* s.split(c)[0]
BeforeFirst(s, c) == IF Contains(s, c) THEN SubSeq(s, 1, IndexOf(s, c) - 1) ELSE s

\* s.split(c, 1)[1]  (s contains c)
AfterFirst(s, c) == SubSeq(s, IndexOf(s, c) + 1, Len(s))

RECURSIVE LStrip(_)
LStrip(s) == IF s # <<>> /\ Head(s) \in Whitespace THEN LStrip(Tail(s)) ELSE s

RECURSIVE RStrip(_)
RStrip(s) ==
    IF s # <<>> /\ s[Len(s)] \in Whitespace THEN RStrip(SubSeq(s, 1, Len(s) - 1)) ELSE s

\* s.strip()
Strip(s) == RStrip(LStrip(s))

\* " ".join(words)
RECURSIVE JoinSpace(_)
JoinSpace(words) ==
    IF words = <<>> THEN <<>>
    ELSE IF Len(words) = 1 THEN words[1]
    ELSE words[1] \o <<" ">> \o JoinSpace(Tail(words))

Calibri == <<"C", "a", "l", "i", "b", "r", "i">>
Arial   == <<"A", "r", "i", "a", "l">>

----------------------------------------------------------------------------
(* clean_font_name (app.py:133-144).  None and "" are both falsy and are  *)
(* both the empty sequence here.                                           *)

clean_font_name(name) ==
    IF name = <<>> THEN Calibri
    ELSE LET a == IF Contains(name, "+") THEN AfterFirst(name, "+") ELSE name
             b == BeforeFirst(a, ",")
             c == BeforeFirst(b, "-")
             d == Strip(c)
         IN  IF d = <<>> THEN Calibri ELSE d

----------------------------------------------------------------------------
(* Values of the variables a specification does not use *)

NoPage  == [w |-> 0, h |-> 0, blocks |-> <<>>, images |-> <<>>]
NoSlide == [page |-> 0, pictures |-> <<>>, textboxes |-> <<>>]
NoPix   == [w |-> 0, h |-> 0, px |-> <<>>]
NoImage == [bbox |-> <<0, 0, 0, 0>>, page_w |-> 0, page_h |-> 0]

IdleCaps == NUMPY_AVAILABLE = FALSE /\ OCR_AVAILABLE = FALSE
IdlePipe ==
    /\ pc = "idle" /\ num_pages = 0 /\ page_idx = 0 /\ page = NoPage
    /\ slide_w_emu = 0 /\ slide_h_emu = 0
    /\ text_blocks = <<>> /\ use_ocr = FALSE /\ block_bboxes_for_render = <<>>
    /\ slide = NoSlide /\ prs = <<>> /\ total_textboxes = 0
    /\ ocr_calls = <<>> /\ error = "none"
IdleDpi   == dpi = 72
IdleFont  == raw_name = <<>> /\ cleaned = <<>>
IdleClass == image = NoImage /\ is_bg = FALSE
IdleOcr   == data = <<>> /\ tb_lines = <<>> /\ bb_lines = <<>>
IdleErase == pix = NoPix /\ img_arr = <<>> /\ erase_bboxes = <<>> /\ fills = <<>>

----------------------------------------------------------------------------
(* SpecFont: clean_font_name applied to every name over FontChars of at    *)
(* most MaxNameLen characters.                                             *)

MaxNameLen == 4
FontChars  == {"A", "+", ",", "-", " "}

InitFont ==
    /\ raw_name \in SeqsUpTo(FontChars, MaxNameLen)
    /\ cleaned = <<>> /\ applied = FALSE
    /\ IdleCaps /\ IdlePipe /\ IdleDpi /\ IdleClass /\ IdleOcr /\ IdleErase

CleanFontName ==
    /\ ~applied
    /\ cleaned' = clean_font_name(raw_name)
    /\ applied' = TRUE
    /\ UNCHANGED <<pipeVars, dpi, raw_name, classVars, ocrVars, eraseVars>>

NextFont == CleanFontName
SpecFont == InitFont /\ [][NextFont]_vars

SubsetTagName == <<"A", "B", "C", "D", "E", "F", "+", "A", "r", "i", "a", "l", ",",
                   "B", "o", "l", "d", "-", "I", "t", "a", "l", "i", "c">>

\* C5: clean_font_name is total and idempotent: every name cleans to a
\* non-empty family, cleaning the result again changes nothing, the empty name
\* cleans to the fallback "Calibri", and "ABCDEF+Arial,Bold-Italic" and "Arial"
\* both clean to "Arial".
C5_CleanTotalIdempotent ==
    applied =>
        /\ cleaned # <<>>
        /\ clean_font_name(cleaned) = cleaned
        /\ (raw_name = <<>> => cleaned = Calibri)
        /\ clean_font_name(SubsetTagName) = Arial
        /\ clean_font_name(Arial) = Arial

----------------------------------------------------------------------------
(* is_background_image (app.py:398-403).  The ratio test                   *)
(* img_area / page_area > 0.80 is, for page_area > 0, the integer test     *)
(* img_area * 100 > 80 * page_area.                                        *)

ThresholdNum == 80
ThresholdDen == 100

is_background_image_inclusive(bbox, page_w, page_h) ==
    LET img_area  == Max(0, bbox[3] - bbox[1]) * Max(0, bbox[4] - bbox[2])
        page_area == page_w * page_h
    IN  page_area > 0 /\ img_area * ThresholdDen >= ThresholdNum * page_area

is_background_image(bbox, page_w, page_h) ==
    LET img_area  == Max(0, bbox[3] - bbox[1]) * Max(0, bbox[4] - bbox[2])
        page_area == page_w * page_h
    IN  page_area > 0 /\ img_area * ThresholdDen > ThresholdNum * page_area

(* SpecClass: is_background_image applied to every bbox with corners in    *)
(* 0..MaxCoord (corners in either order) on pages with sides in PageSides. *)

MaxCoord  == 10
PageSides == {-10, 0, 10}

InitClass ==
    /\ image \in [bbox : (0..MaxCoord) \X (0..MaxCoord) \X (0..MaxCoord) \X (0..MaxCoord),
                  page_w : PageSides, page_h : PageSides]
    /\ is_bg = FALSE /\ applied = FALSE
    /\ IdleCaps /\ IdlePipe /\ IdleDpi /\ IdleFont /\ IdleOcr /\ IdleErase

Classify ==
    /\ ~applied
    /\ is_bg' = is_background_image(image.bbox, image.page_w, image.page_h)
    /\ applied' = TRUE
    /\ UNCHANGED <<pipeVars, dpi, fontVars, image, ocrVars, eraseVars>>

NextClass == Classify
SpecClass == InitClass /\ [][NextClass]_vars

BBoxW(b) == b[3] - b[1]
BBoxH(b) == b[4] - b[2]

----------------------------------------------------------------------------
(* The recognition fallback.  The recognizer's result (pytesseract's       *)
(* Output.DICT of parallel lists) is a sequence of word records            *)
(* [text, conf, key, left, top, width, height], key = <<block_num,         *)
(* par_num, line_num>>, in the recognition raster's pixels.  The dict      *)
(* `lines` keeps insertion order: it is a sequence of line records, one    *)
(* per key, in the order the keys first arrive.                            *)

MinConf       == 30
OcrDpi        == 200
PointsPerInch == 72
\* Page coordinates are held in 1/PtUnit point: a recognition pixel is
\* 72/200 point = PxUnits of them.
PtUnit        == 25
PxUnits       == (PointsPerInch * PtUnit) \div OcrDpi

LineIndex(lines, key) == CHOOSE i \in 1..Len(lines) : lines[i].key = key
HasLine(lines, key)   == \E i \in 1..Len(lines) : lines[i].key = key

\* One iteration of the loop of ocr_page_to_textboxes (app.py:285-305).
tb_add_word(lines, w) ==
    IF Strip(w.text) = <<>> THEN lines
    ELSE IF w.conf < MinConf THEN lines
    ELSE IF ~HasLine(lines, w.key)
         THEN Append(lines, [key    |-> w.key,
                             words  |-> <<w.text>>,
                             left   |-> w.left,
                             top    |-> w.top,
                             right  |-> w.left + w.width,
                             bottom |-> w.top + w.height,
                             height |-> w.height])
         ELSE LET i == LineIndex(lines, w.key)
                  l == lines[i]
              IN  [lines EXCEPT ![i] =
                      [l EXCEPT !.right  = Max(l.right, w.left + w.width),
                                !.bottom = Max(l.bottom, w.top + w.height),
                                !.height = Max(l.height, w.height),
                                !.words  = Append(l.words, w.text)]]

RECURSIVE tb_group(_, _)
tb_group(lines, ws) ==
    IF ws = <<>> THEN lines ELSE tb_group(tb_add_word(lines, Head(ws)), Tail(ws))

\* One iteration of the loop of _get_ocr_bboxes (app.py:593-609).
bb_add_word(lines, w) ==
    IF Strip(w.text) = <<>> THEN lines
    ELSE IF w.conf < MinConf THEN lines
    ELSE IF ~HasLine(lines, w.key)
         THEN Append(lines, [key    |-> w.key,
                             left   |-> w.left,
                             top    |-> w.top,
                             right  |-> w.left + w.width,
                             bottom |-> w.top + w.height])
         ELSE LET i == LineIndex(lines, w.key)
                  l == lines[i]
              IN  [lines EXCEPT ![i] =
                      [l EXCEPT !.right  = Max(l.right, w.left + w.width),
                                !.bottom = Max(l.bottom, w.top + w.height)]]

RECURSIVE bb_group(_, _)
bb_group(lines, ws) ==
    IF ws = <<>> THEN lines ELSE bb_group(bb_add_word(lines, Head(ws)), Tail(ws))

(* SpecOcr: both grouping loops applied to every recognizer result of at   *)
(* most MaxWords words drawn from OcrWords.                                *)

MaxWords  == 2
OcrKeys   == {<<1, 1, 1>>, <<1, 1, 2>>}
OcrTexts  == {<<"a">>, <<"b">>, <<" ">>}
OcrConfs  == {29, 30}
WordBoxes == {[left |-> 0,  top |-> 0, width |-> 5,  height |-> 5],
              [left |-> 10, top |-> 5, width |-> 5,  height |-> 8],
              [left |-> 4,  top |-> 2, width |-> 20, height |-> 2]}

Word(t, c, k, b) ==
    [text |-> t, conf |-> c, key |-> k,
     left |-> b.left, top |-> b.top, width |-> b.width, height |-> b.height]

OcrWords == {Word(t, c, k, b) : t \in OcrTexts, c \in OcrConfs, k \in OcrKeys, b \in WordBoxes}

InitOcr ==
    /\ data \in SeqsUpTo(OcrWords, MaxWords)
    /\ tb_lines = <<>> /\ bb_lines = <<>> /\ applied = FALSE
    /\ IdleCaps /\ IdlePipe /\ IdleDpi /\ IdleFont /\ IdleClass /\ IdleErase

GroupWords ==
    /\ ~applied
    /\ tb_lines' = tb_group(<<>>, data)
    /\ bb_lines' = bb_group(<<>>, data)
    /\ applied' = TRUE
    /\ UNCHANGED <<pipeVars, dpi, fontVars, classVars, data, eraseVars>>

NextOcr == GroupWords
SpecOcr == InitOcr /\ [][NextOcr]_vars

\* The accepted words of a result that carry key k, in arrival order.
AcceptedWords(ws, k) ==
    LET Ok(w) == Strip(w.text) # <<>> /\ w.conf >= MinConf /\ w.key = k
    IN  SelectSeq(ws, Ok)

SetMin(S) == CHOOSE x \in S : \A y \in S : x <= y
SetMax(S) == CHOOSE x \in S : \A y \in S : x >= y
Range(s)  == {s[i] : i \in 1..Len(s)}

UnionBoxOf(ws) ==
    [left   |-> SetMin({w.left : w \in Range(ws)}),
     top    |-> SetMin({w.top : w \in Range(ws)}),
     right  |-> SetMax({w.left + w.width : w \in Range(ws)}),
     bottom |-> SetMax({w.top + w.height : w \in Range(ws)})]

LineBox(l) == [left |-> l.left, top |-> l.top, right |-> l.right, bottom |-> l.bottom]

\* C3: in both recognition passes, the accepted words of one (block,
\* paragraph, line) key, in any arrival order, merge into one line whose box is
\* the union of the words' boxes (min left, min top, max right, max bottom) and
\* whose text is the words joined by single spaces in arrival order.
C3_MergedLineIsUnion ==
    applied =>
        \A k \in OcrKeys :
            LET ws == AcceptedWords(data, k)
            IN  ws # <<>> =>
                  /\ \E i \in 1..Len(tb_lines) :
                        /\ tb_lines[i].key = k
                        /\ LineBox(tb_lines[i]) = UnionBoxOf(ws)
                        /\ JoinSpace(tb_lines[i].words)
                             = JoinSpace([j \in 1..Len(ws) |-> ws[j].text])
                  /\ \E i \in 1..Len(bb_lines) :
                        /\ bb_lines[i].key = k
                        /\ LineBox(bb_lines[i]) = UnionBoxOf(ws)

----------------------------------------------------------------------------
(* render_page_without_text (app.py:158-247).  A raster is a function from *)
(* <<y, x>>, 0 <= y < h, 0 <= x < w, to an RGB triple.  A bbox is          *)
(* <<x0, y0, x1, y1>> in 1/PtUnit point.                                   *)

White == <<255, 255, 255>>

\* int(v * zoom), zoom = dpi / 72, v in 1/PtUnit point
ToPixel(v, d) == Trunc(v * d, PtUnit * PointsPerInch)

\* pad = max(1, int(1.5 * zoom))
Pad(d) == Max(1, Trunc(3 * d, 2 * PointsPerInch))

\* sample_size = max(3, int(4 * zoom))
SampleSize(d) == Max(3, Trunc(4 * d, PointsPerInch))

\* The padded pixel rectangle of a bbox, clipped to the raster (app.py:179-185).
PadRect(bbox, d, w, h) ==
    [px0 |-> Max(0, ToPixel(bbox[1], d) - Pad(d)),
     py0 |-> Max(0, ToPixel(bbox[2], d) - Pad(d)),
     px1 |-> Min(w, ToPixel(bbox[3], d) + Pad(d)),
     py1 |-> Min(h, ToPixel(bbox[4], d) + Pad(d))]

\* app.py:187
EmptyRect(r) == r.px1 <= r.px0 \/ r.py1 <= r.py0

InRect(p, r) == r.py0 <= p[1] /\ p[1] < r.py1 /\ r.px0 <= p[2] /\ p[2] < r.px1

\* The pixels of the four border strips (app.py:194-224); the strips are
\* disjoint, so the set holds each sampled pixel once.
EdgePixels(r, d, w, h) ==
    LET s      == SampleSize(d)
        top    == (Max(0, r.py0 - s)..(r.py0 - 1)) \X (r.px0..(r.px1 - 1))
        bottom == (r.py1..(Min(h, r.py1 + s) - 1)) \X (r.px0..(r.px1 - 1))
        left   == (r.py0..(r.py1 - 1)) \X (Max(0, r.px0 - s)..(r.px0 - 1))
        right  == (r.py0..(r.py1 - 1)) \X (r.px1..(Min(w, r.px1 + s) - 1))
    IN  top \cup bottom \cup left \cup right

\* The k-th smallest value of channel ch among the pixels S (1 <= k <= |S|).
KthSmallest(arr, S, ch, k) ==
    CHOOSE v \in {arr[p][ch] : p \in S} :
        /\ Cardinality({p \in S : arr[p][ch] < v}) < k
        /\ Cardinality({p \in S : arr[p][ch] <= v}) >= k

RECURSIVE ChannelSum(_, _, _)
ChannelSum(arr, S, ch) ==
    IF S = {} THEN 0
    ELSE LET p == CHOOSE q \in S : TRUE
         IN  arr[p][ch] + ChannelSum(arr, S \ {p}, ch)

ChannelMean(arr, S, ch) == ChannelSum(arr, S, ch) \div Cardinality(S)

\* np.median(...).astype(np.uint8) of one channel: the middle value of the
\* sorted sample, or the mean of the two middle values with its fraction dropped.
ChannelMedian(arr, S, ch) ==
    LET n == Cardinality(S)
    IN  IF n % 2 = 1 THEN KthSmallest(arr, S, ch, (n + 1) \div 2)
        ELSE (KthSmallest(arr, S, ch, n \div 2)
                + KthSmallest(arr, S, ch, n \div 2 + 1)) \div 2

bg_color_mean(arr, S) ==
    IF S # {} THEN [ch \in 1..3 |-> ChannelMean(arr, S, ch)] ELSE White

\* app.py:226-232
bg_color(arr, S) ==
    IF S # {} THEN [ch \in 1..3 |-> ChannelMedian(arr, S, ch)] ELSE White

\* app.py:234
FillRect(arr, r, c) == [p \in DOMAIN arr |-> IF InRect(p, r) THEN c ELSE arr[p]]

(* SpecErase: the erasure of at most MaxBoxes boxes, drawn one after the   *)
(* other from EraseBoxes, on square pages of PageSidePt points rendered at *)
(* the resolutions EraseDpis, painted in two colours: uniform, or split    *)
(* along a column or a row.                                                *)

MaxBoxes   == 2
PageSidePt == 4
EraseDpis  == {72, 144}
Red        == <<255, 0, 0>>
Blue       == <<0, 0, 255>>
Points(n)  == n * PtUnit

EraseBoxes ==
    {<<x[1], y[1], x[2], y[2]>> :
        x \in {<<Points(0), Points(0)>>, <<Points(0), Points(2)>>, <<Points(2), Points(2)>>},
        y \in {<<Points(0), Points(0)>>, <<Points(0), Points(2)>>, <<Points(2), Points(2)>>}}
    \cup {<<Points(PageSidePt + 2), Points(0), Points(PageSidePt + 3), Points(2)>>}

RasterSide(d) == (PageSidePt * d) \div PointsPerInch
Pixels(n)     == (0..(n - 1)) \X (0..(n - 1))

Rasters(d) ==
    LET n == RasterSide(d)
    IN  {[p \in Pixels(n) |-> c] : c \in {Red, Blue}}
        \cup {[p \in Pixels(n) |-> IF p[2] < k THEN c[1] ELSE c[2]] :
                 k \in 1..(n - 1), c \in {<<Red, Blue>>, <<Blue, Red>>}}
        \cup {[p \in Pixels(n) |-> IF p[1] < k THEN c[1] ELSE c[2]] :
                 k \in 1..(n - 1), c \in {<<Red, Blue>>, <<Blue, Red>>}}

InitErase ==
    /\ NUMPY_AVAILABLE \in BOOLEAN /\ OCR_AVAILABLE = FALSE
    /\ dpi \in EraseDpis
    /\ \E arr \in Rasters(dpi) :
          /\ pix = [w |-> RasterSide(dpi), h |-> RasterSide(dpi), px |-> arr]
          /\ img_arr = IF NUMPY_AVAILABLE THEN arr ELSE <<>>
    /\ erase_bboxes = <<>> /\ fills = <<>> /\ applied = FALSE
    /\ IdlePipe /\ IdleFont /\ IdleClass /\ IdleOcr

\* One iteration of the loop over block_bboxes (app.py:178-234).
EraseBox(bbox) ==
    /\ NUMPY_AVAILABLE /\ ~applied
    /\ Len(erase_bboxes) < MaxBoxes
    /\ erase_bboxes' = Append(erase_bboxes, bbox)
    /\ LET r == PadRect(bbox, dpi, pix.w, pix.h)
       IN  IF EmptyRect(r)
           THEN /\ img_arr' = img_arr
                /\ fills' = Append(fills, [skipped |-> TRUE, n |-> 0, color |-> White])
           ELSE LET S == EdgePixels(r, dpi, pix.w, pix.h)
                    c == bg_color(img_arr, S)
                IN  /\ img_arr' = FillRect(img_arr, r, c)
                    /\ fills' = Append(fills, [skipped |-> FALSE,
                                               n       |-> Cardinality(S),
                                               color   |-> c])
    /\ UNCHANGED <<pipeVars, dpi, fontVars, classVars, ocrVars, pix, applied>>

\* The end of the list: the buffer is returned (app.py:236-247).
EraseReturn ==
    /\ ~applied
    /\ applied' = TRUE
    /\ UNCHANGED <<pipeVars, dpi, fontVars, classVars, ocrVars, eraseVars>>

\* The returned image: the filled copy, or the untouched render without numpy.
ReturnedImage == IF NUMPY_AVAILABLE THEN img_arr ELSE pix.px

NextErase == (\E bbox \in EraseBoxes : EraseBox(bbox)) \/ EraseReturn
SpecErase == InitErase /\ [][NextErase]_vars

\* The padded rectangle and the sampled pixels of the i-th box iterated.
RectOf(i)    == PadRect(erase_bboxes[i], dpi, pix.w, pix.h)
SamplesOf(i) == EdgePixels(RectOf(i), dpi, pix.w, pix.h)

\* C4: the erasure is order-independent: the fill colour of each box depends
\* only on the rendered raster and that box, not on the boxes processed before
\* it, so in the returned image every pixel lying in exactly one padded box
\* has the colour estimated for that box on the rendered raster, whatever the
\* order of the list.
C4_OrderIndependent ==
    NUMPY_AVAILABLE =>
        /\ \A i \in 1..Len(fills) :
              ~fills[i].skipped => fills[i].color = bg_color(pix.px, SamplesOf(i))
        /\ applied =>
              \A p \in DOMAIN img_arr :
                  \A i \in 1..Len(erase_bboxes) :
                      ( /\ ~EmptyRect(RectOf(i)) /\ InRect(p, RectOf(i))
                        /\ \A j \in 1..Len(erase_bboxes) :
                              j # i => EmptyRect(RectOf(j)) \/ ~InRect(p, RectOf(j)) )
                      => img_arr[p] = bg_color(pix.px, SamplesOf(i))

\* The box iterated last: its samples lie outside its own fill, so they are
\* still in img_arr as they were when the box was sampled.
HasLast        == NUMPY_AVAILABLE /\ erase_bboxes # <<>> /\ ~fills[Len(fills)].skipped
LastSamples    == SamplesOf(Len(erase_bboxes))
LastFill       == fills[Len(fills)].color
LastColours    == {img_arr[p] : p \in LastSamples}
LastCount(c)   == Cardinality({p \in LastSamples : img_arr[p] = c})
Blend(a, b)    == [ch \in 1..3 |-> (a[ch] + b[ch]) \div 2]

\* C7 as claimed: the fill of a box with a sampleable border is never a blend:
\* each channel of the fill is that channel's value in some sampled pixel, so
\* on samples of two colours (also in equal numbers) the fill is one of the
\* two, on a uniform raster it is that colour; without samples it is white.
C7_FillIsSampledColour ==
    HasLast =>
        /\ (LastSamples = {} => LastFill = White)
        /\ (LastSamples # {} =>
              /\ \A ch \in 1..3 : \E p \in LastSamples : LastFill[ch] = img_arr[p][ch]
              /\ LastFill \in LastColours)

\* C7 as amended: the fill is numpy's per-channel median with its fraction
\* dropped.  Each channel of the fill lies between the two middle values of
\* the sample, and is a sampled value when the number of samples is odd; on
\* samples of one colour the fill is that colour, on samples of two colours it
\* is the colour of the majority, and with equally many of each it is the
\* per-channel truncated mean of the two, a blend; without samples it is
\* white.  The whole padded rectangle holds the fill.
C7_FillIsTruncatedMedian ==
    HasLast =>
        LET S == LastSamples
            n == Cardinality(S)
            f == LastFill
        IN  /\ fills[Len(fills)].n = n
            /\ \A p \in DOMAIN img_arr : InRect(p, RectOf(Len(erase_bboxes))) => img_arr[p] = f
            /\ (S = {} => f = White)
            /\ (S # {} =>
                  /\ \A ch \in 1..3 :
                        /\ 2 * Cardinality({p \in S : img_arr[p][ch] <= f[ch]}) >= n
                        /\ 2 * Cardinality({p \in S : img_arr[p][ch] >= f[ch]}) >= n
                        /\ (n % 2 = 1 => \E p \in S : img_arr[p][ch] = f[ch])
                  /\ \A a \in LastColours :
                        /\ (LastColours = {a} => f = a)
                        /\ \A b \in LastColours \ {a} :
                              LastColours = {a, b} =>
                                  /\ (LastCount(a) > LastCount(b) => f = a)
                                  /\ (LastCount(a) = LastCount(b) => f = Blend(a, b)))

\* A box whose samples are half red and half blue has been filled with the
\* blend of the two, which is neither.
C7_Witness ==
    /\ HasLast
    /\ LastColours = {Red, Blue}
    /\ LastCount(Red) = LastCount(Blue)
    /\ LastFill = Blend(Red, Blue)
    /\ LastFill \notin {Red, Blue}

----------------------------------------------------------------------------
(* The edit-mode conversion: helpers of convert_edit_mode (app.py:406-558) *)

EmuPerInch  == 914400
\* emu_per_point = 914400 / 72 (app.py:415)
EmuPerPoint == EmuPerInch \div PointsPerInch

MinBoxEmu      == 5000
MinOcrWidthEmu == 10000
BoxSlackEmu    == 50000
OcrSlackWEmu   == 100000
MinOcrFontPt   == 6
BoldFlag       == 16
ItalicFlag     == 2

\* int(v * scale), scale = slide_emu / page_pt, v in 1/PtUnit point.  The
\* canvas is a whole number of points, so slide_emu is a multiple of
\* EmuPerPoint and of PtUnit, and the quotient below is exact.
to_emu_page_scale(v, slide_emu, page_pt) == Trunc(v * EmuPerPoint, PtUnit)

to_emu(v, slide_emu, page_pt) == Trunc(v * (slide_emu \div PtUnit), page_pt)

\* color_int_to_rgb (app.py:125-130)
color_int_to_rgb(c) == <<(c \div 65536) % 256, (c \div 256) % 256, c % 256>>

\* flags & bit, bit a power of two
HasFlag(flags, bit) == (flags \div bit) % 2 = 1

\* The concatenated text of a block's spans (app.py:443-447).
block_text(b) ==
    Concat([i \in 1..Len(b.lines) |->
              Concat([j \in 1..Len(b.lines[i].spans) |-> b.lines[i].spans[j].text])])

\* The filter of app.py:440-448.
keep_block(b) == b.type = 0 /\ Strip(block_text(b)) # <<>>

\* The runs of one line of a block (app.py:531-549): spans without text are skipped.
RECURSIVE line_runs(_)
line_runs(spans) ==
    IF spans = <<>> THEN <<>>
    ELSE LET sp == Head(spans)
         IN  (IF sp.text = <<>> THEN <<>>
              ELSE <<[text   |-> sp.text,
                      size   |-> Max(1, sp.size) * EmuPerPoint,
                      rgb    |-> color_int_to_rgb(sp.color),
                      bold   |-> HasFlag(sp.flags, BoldFlag),
                      italic |-> HasFlag(sp.flags, ItalicFlag),
                      name   |-> clean_font_name(sp.font)]>>)
             \o line_runs(Tail(spans))

\* The text box of one structural block, in a sequence: empty when the block
\* is dropped (app.py:494-551).
block_textbox_yscale(b, sw, sh, pw, ph) ==
    LET bw == b.bbox[3] - b.bbox[1]
        bh == b.bbox[4] - b.bbox[2]
    IN  IF bw <= 0 \/ bh <= 0 THEN <<>>
        ELSE IF to_emu(bw, sw, pw) < MinBoxEmu \/ to_emu(bh, sh, ph) < MinBoxEmu THEN <<>>
        ELSE <<[left       |-> to_emu(b.bbox[1], sh, ph),
                top        |-> to_emu(b.bbox[2], sh, ph),
                width      |-> to_emu(bw, sw, pw) + BoxSlackEmu,
                height     |-> to_emu(bh, sh, ph) + BoxSlackEmu,
                paragraphs |-> [i \in 1..Len(b.lines) |-> line_runs(b.lines[i].spans)]]>>

block_textbox(b, sw, sh, pw, ph) ==
    LET bw == b.bbox[3] - b.bbox[1]
        bh == b.bbox[4] - b.bbox[2]
    IN  IF bw <= 0 \/ bh <= 0 THEN <<>>
        ELSE IF to_emu(bw, sw, pw) < MinBoxEmu \/ to_emu(bh, sh, ph) < MinBoxEmu THEN <<>>
        ELSE <<[left       |-> to_emu(b.bbox[1], sw, pw),
                top        |-> to_emu(b.bbox[2], sh, ph),
                width      |-> to_emu(bw, sw, pw) + BoxSlackEmu,
                height     |-> to_emu(bh, sh, ph) + BoxSlackEmu,
                paragraphs |-> [i \in 1..Len(b.lines) |-> line_runs(b.lines[i].spans)]]>>

\* The loop over text_blocks (app.py:493-551).
RECURSIVE structural_textboxes(_, _, _, _, _)
structural_textboxes(blocks, sw, sh, pw, ph) ==
    IF blocks = <<>> THEN <<>>
    ELSE block_textbox(Head(blocks), sw, sh, pw, ph)
         \o structural_textboxes(Tail(blocks), sw, sh, pw, ph)

\* The second loop of ocr_page_to_textboxes (app.py:307-363) on one line:
\* the page-space bbox recorded and the text box added, or nothing.
line_textbox(l, sw, sh, pw, ph) ==
    LET line_text == Strip(JoinSpace(l.words))
        x0    == l.left * PxUnits
        y0    == l.top * PxUnits
        w     == (l.right - l.left) * PxUnits
        h     == (l.bottom - l.top) * PxUnits
        w_emu == to_emu(w, sw, pw)
        h_emu == to_emu(h, sh, ph)
    IN  IF line_text = <<>> THEN <<>>
        ELSE IF w_emu < MinOcrWidthEmu \/ h_emu < MinBoxEmu THEN <<>>
        ELSE <<[bbox |-> <<x0, y0, x0 + w, y0 + h>>,
                box  |-> [left       |-> to_emu(x0, sw, pw),
                          top        |-> to_emu(y0, sh, ph),
                          width      |-> w_emu + OcrSlackWEmu,
                          height     |-> h_emu + BoxSlackEmu,
                          paragraphs |->
                             <<<<[text   |-> line_text,
                                  size   |-> Max(MinOcrFontPt * EmuPerPoint,
                                                Trunc(l.height * PxUnits * 7 * EmuPerPoint,
                                                      PtUnit * 10)),
                                  rgb    |-> <<0, 0, 0>>,
                                  bold   |-> FALSE,
                                  italic |-> FALSE,
                                  name   |-> <<>>]>>>>]]>>

RECURSIVE lines_textboxes(_, _, _, _, _)
lines_textboxes(lines, sw, sh, pw, ph) ==
    IF lines = <<>> THEN <<>>
    ELSE line_textbox(Head(lines), sw, sh, pw, ph)
         \o lines_textboxes(Tail(lines), sw, sh, pw, ph)

\* The second loop of _get_ocr_bboxes (app.py:611-623).
RECURSIVE lines_bboxes(_)
lines_bboxes(lines) ==
    IF lines = <<>> THEN <<>>
    ELSE LET l  == Head(lines)
             x0 == l.left * PxUnits
             y0 == l.top * PxUnits
             x1 == l.right * PxUnits
             y1 == l.bottom * PxUnits
         IN  (IF x1 - x0 > PtUnit /\ y1 - y0 > PtUnit THEN <<<<x0, y0, x1, y1>>>> ELSE <<>>)
             \o lines_bboxes(Tail(lines))

(* The recognition engine.  A reply is what one image_to_data call does:   *)
(* it raises (ok = FALSE) or returns word records.  Both passes try the    *)
(* mixed-language model and, when that raises, the single-language model   *)
(* (app.py:266-281, 576-590).                                              *)

MixedLang  == "jpn+eng"
SingleLang == "eng"

\* The calls one pass makes, given what each model would reply.
recognizer_calls_single_first(mixed, single) ==
    IF single.ok THEN <<[lang |-> SingleLang, ok |-> TRUE]>>
    ELSE <<[lang |-> SingleLang, ok |-> FALSE], [lang |-> MixedLang, ok |-> mixed.ok]>>

recognizer_calls(mixed, single) ==
    IF mixed.ok THEN <<[lang |-> MixedLang, ok |-> TRUE]>>
    ELSE <<[lang |-> MixedLang, ok |-> FALSE], [lang |-> SingleLang, ok |-> single.ok]>>

\* What the pass goes on with: the data, or nothing when both calls raised.
recognized(mixed, single) ==
    IF mixed.ok THEN [ok |-> TRUE, data |-> mixed.data]
    ELSE IF single.ok THEN [ok |-> TRUE, data |-> single.data]
    ELSE [ok |-> FALSE, data |-> <<>>]

\* _get_ocr_bboxes (app.py:561-623)
get_ocr_bboxes(mixed, single) ==
    IF ~OCR_AVAILABLE THEN <<>>
    ELSE IF ~recognized(mixed, single).ok THEN <<>>
    ELSE lines_bboxes(bb_group(<<>>, recognized(mixed, single).data))

\* ocr_page_to_textboxes (app.py:250-363): the lines placed, each with its
\* page-space bbox and its text box; n_added is their number.
ocr_page_to_textboxes_unchecked(mixed, single, sw, sh, pw, ph) ==
    IF ~recognized(mixed, single).ok THEN <<>>
    ELSE lines_textboxes(tb_group(<<>>, recognized(mixed, single).data), sw, sh, pw, ph)

ocr_page_to_textboxes(mixed, single, sw, sh, pw, ph) ==
    IF ~OCR_AVAILABLE THEN <<>>
    ELSE IF ~recognized(mixed, single).ok THEN <<>>
    ELSE lines_textboxes(tb_group(<<>>, recognized(mixed, single).data), sw, sh, pw, ph)

\* render_page_image / render_page_without_text as convert_edit_mode sees
\* them: the picture is the plain render, or the render with boxes erased.
render_page_image == [kind |-> "render", boxes |-> <<>>]

render_page_without_text(bboxes) ==
    IF NUMPY_AVAILABLE THEN [kind |-> "erased", boxes |-> bboxes] ELSE render_page_image

\* app.py:471-476
background_image(bboxes) ==
    IF bboxes # <<>> /\ NUMPY_AVAILABLE /\ OCR_AVAILABLE
    THEN render_page_without_text(bboxes)
    ELSE render_page_image

(* Spec: the conversion of documents of at most MaxPages pages, each page  *)
(* drawn from Pages when the loop reaches it, with every combination of    *)
(* the two capability flags and every reply of the recognition engine in   *)
(* EngineReplies.                                                          *)

MaxPages   == 2
MaxBlocks  == 1
DefaultDpi == 144

HelloWorld   == <<"H", "e", "l", "l", "o", " ", "W", "o", "r", "l", "d">>
Blank        == <<" ", " ">>
NormalBox    == <<Points(10), Points(10), Points(60), Points(30)>>
ZeroWidthBox == <<Points(10), Points(10), Points(10), Points(30)>>
NarrowBox    == <<Points(10), Points(10), Points(11), Points(30)>>
\* The whole of a 100 x 100 page.
WholePageBox == <<Points(0), Points(0), Points(100), Points(100)>>

Span(t) == [text |-> t, size |-> 12, color |-> 16711680, flags |-> 18, font |-> SubsetTagName]
TextBlock(bbox, t) == [type |-> 0, bbox |-> bbox, lines |-> <<[spans |-> <<Span(t), Span(<<>>)>>]>>]
ImageBlock == [type |-> 1, bbox |-> NormalBox, lines |-> <<>>]

Blocks == {TextBlock(NormalBox, HelloWorld), TextBlock(NormalBox, Blank),
           TextBlock(ZeroWidthBox, HelloWorld), TextBlock(NarrowBox, HelloWorld),
           TextBlock(WholePageBox, HelloWorld), ImageBlock}

\* Raw images of a page: one covering a 100 x 100 page, one covering 5% of it.
FullImage  == <<Points(0), Points(0), Points(100), Points(100)>>
SmallImage == <<Points(0), Points(0), Points(25), Points(20)>>
ImageLists == {<<>>, <<FullImage, SmallImage>>}

PageSizes == {<<100, 100>>, <<400, 100>>, <<0, 100>>, <<100, 0>>}

Pages == {[w |-> sz[1], h |-> sz[2], blocks |-> bs, images |-> im] :
             sz \in PageSizes, bs \in SeqsUpTo(Blocks, MaxBlocks), im \in ImageLists}

K1 == <<1, 1, 1>>
OcrResults ==
    { <<>>,
      <<[text |-> <<"a">>, conf |-> 90, key |-> K1,
         left |-> 100, top |-> 100, width |-> 50, height |-> 20],
        [text |-> <<"b">>, conf |-> 80, key |-> K1,
         left |-> 160, top |-> 98, width |-> 40, height |-> 22]>>,
      <<[text |-> <<"a">>, conf |-> 90, key |-> K1,
         left |-> 100, top |-> 100, width |-> 3, height |-> 20]>>,
      <<[text |-> <<"a">>, conf |-> 90, key |-> K1,
         left |-> 100, top |-> 100, width |-> 2, height |-> 20]>> }

EngineReplies == {[ok |-> FALSE, data |-> <<>>]} \cup {[ok |-> TRUE, data |-> d] : d \in OcrResults}

Init ==
    /\ NUMPY_AVAILABLE \in BOOLEAN /\ OCR_AVAILABLE \in BOOLEAN
    /\ dpi = DefaultDpi
    /\ IdlePipe /\ IdleFont /\ IdleClass /\ IdleOcr /\ IdleErase
    /\ applied = FALSE

\* The calls of one pass, stamped with the page, the pass and the number of
\* structural blocks the filter kept.
StampCalls(calls, pass, nblocks) ==
    [i \in 1..Len(calls) |->
        [page |-> page_idx, pass |-> pass, blocks |-> nblocks,
         lang |-> calls[i].lang, ok |-> calls[i].ok]]

\* The button: the document is opened and the canvas derived from its first
\* page (app.py:663-673, 415-426).
StartConversion ==
    /\ pc = "idle"
    /\ \E n \in 1..MaxPages, p \in Pages :
          /\ num_pages' = n
          /\ page' = p
          /\ slide_w_emu' = p.w * EmuPerPoint
          /\ slide_h_emu' = p.h * EmuPerPoint
    /\ page_idx' = 0 /\ prs' = <<>> /\ total_textboxes' = 0
    /\ pc' = "page"
    /\ UNCHANGED <<NUMPY_AVAILABLE, OCR_AVAILABLE, dpi, text_blocks, use_ocr,
                   block_bboxes_for_render, slide, ocr_calls, error,
                   fontVars, classVars, ocrVars, eraseVars, applied>>

\* The head of the loop body: the scale factors and the new slide
\* (app.py:428-436).  The division raises ZeroDivisionError on a page of zero
\* width or height; the exception leaves convert_edit_mode and is reported by
\* the caller (app.py:719-721): no presentation is produced.
BeginPage ==
    /\ pc = "page"
    /\ IF page.w = 0 \/ page.h = 0
       THEN /\ error' = "ZeroDivisionError"
            /\ pc' = "failed"
            /\ prs' = <<>>
            /\ UNCHANGED <<slide, ocr_calls>>
       ELSE /\ slide' = [page |-> page_idx, pictures |-> <<>>, textboxes |-> <<>>]
            /\ ocr_calls' = <<>>
            /\ pc' = "extract"
            /\ UNCHANGED <<error, prs>>
    /\ UNCHANGED <<NUMPY_AVAILABLE, OCR_AVAILABLE, dpi, num_pages, page_idx, page,
                   slide_w_emu, slide_h_emu, text_blocks, use_ocr,
                   block_bboxes_for_render, total_textboxes,
                   fontVars, classVars, ocrVars, eraseVars, applied>>

\* STEP 1 (app.py:438-463): the structural blocks, and on a page without any
\* the first recognition pass.
ExtractText ==
    /\ pc = "extract"
    /\ LET kept == SelectSeq(page.blocks, keep_block)
       IN  /\ text_blocks' = kept
           /\ use_ocr' = (Len(kept) = 0)
           /\ IF Len(kept) = 0
              THEN \E mixed \in EngineReplies, single \in EngineReplies :
                      /\ block_bboxes_for_render' = get_ocr_bboxes(mixed, single)
                      /\ ocr_calls' =
                            IF OCR_AVAILABLE
                            THEN ocr_calls \o StampCalls(recognizer_calls(mixed, single),
                                                         "bboxes", Len(kept))
                            ELSE ocr_calls
              ELSE /\ block_bboxes_for_render' = [i \in 1..Len(kept) |-> kept[i].bbox]
                   /\ ocr_calls' = ocr_calls
    /\ pc' = "background"
    /\ UNCHANGED <<NUMPY_AVAILABLE, OCR_AVAILABLE, dpi, num_pages, page_idx, page,
                   slide_w_emu, slide_h_emu, slide, prs, total_textboxes, error,
                   fontVars, classVars, ocrVars, eraseVars, applied>>

\* STEP 2 (app.py:465-481): the background picture, over the whole canvas.
BuildBackground ==
    /\ pc = "background"
    /\ slide' = [slide EXCEPT !.pictures =
                    Append(@, [image  |-> background_image(block_bboxes_for_render),
                               left   |-> 0,
                               top    |-> 0,
                               width  |-> slide_w_emu,
                               height |-> slide_h_emu])]
    /\ pc' = "textboxes"
    /\ UNCHANGED <<NUMPY_AVAILABLE, OCR_AVAILABLE, dpi, num_pages, page_idx, page,
                   slide_w_emu, slide_h_emu, text_blocks, use_ocr,
                   block_bboxes_for_render, prs, total_textboxes, ocr_calls, error,
                   fontVars, classVars, ocrVars, eraseVars, applied>>

\* STEP 3 (app.py:483-551): the text boxes, from the second recognition pass
\* or from the structural blocks.
PlaceTextboxes ==
    /\ pc = "textboxes"
    /\ IF use_ocr
       THEN \E mixed \in EngineReplies, single \in EngineReplies :
               LET placed == ocr_page_to_textboxes(mixed, single, slide_w_emu, slide_h_emu,
                                                   page.w, page.h)
               IN  /\ slide' = [slide EXCEPT !.textboxes =
                                   @ \o [i \in 1..Len(placed) |-> placed[i].box]]
                   /\ total_textboxes' = total_textboxes + Len(placed)
                   /\ ocr_calls' =
                         IF OCR_AVAILABLE
                         THEN ocr_calls \o StampCalls(recognizer_calls(mixed, single),
                                                      "textboxes", Len(text_blocks))
                         ELSE ocr_calls
       ELSE LET placed == structural_textboxes(text_blocks, slide_w_emu, slide_h_emu,
                                               page.w, page.h)
            IN  /\ slide' = [slide EXCEPT !.textboxes = @ \o placed]
                /\ total_textboxes' = total_textboxes + Len(placed)
                /\ ocr_calls' = ocr_calls
    /\ pc' = "page_done"
    /\ UNCHANGED <<NUMPY_AVAILABLE, OCR_AVAILABLE, dpi, num_pages, page_idx, page,
                   slide_w_emu, slide_h_emu, text_blocks, use_ocr,
                   block_bboxes_for_render, prs, error,
                   fontVars, classVars, ocrVars, eraseVars, applied>>

\* A finished slide as prs keeps it: its page, its pictures and its
\* background, and the number of its text boxes.
Finished(sl) ==
    [page      |-> sl.page,
     pictures  |-> Len(sl.pictures),
     bg        |-> sl.pictures[1].image.kind,
     textboxes |-> Len(sl.textboxes)]

\* The end of the loop body (app.py:553-556): the slide is finished.  The
\* locals of the iteration are dead from here on (each is assigned again
\* before it is read), so the model clears them.
EndPage ==
    /\ pc = "page_done"
    /\ prs' = Append(prs, Finished(slide))
    /\ text_blocks' = <<>> /\ use_ocr' = FALSE /\ block_bboxes_for_render' = <<>>
    /\ slide' = NoSlide /\ ocr_calls' = <<>>
    /\ pc' = "loop"
    /\ UNCHANGED <<NUMPY_AVAILABLE, OCR_AVAILABLE, dpi, num_pages, page_idx, page,
                   slide_w_emu, slide_h_emu, total_textboxes, error,
                   fontVars, classVars, ocrVars, eraseVars, applied>>

\* The loop goes on to the next page of the document (app.py:428).
NextPage ==
    /\ pc = "loop"
    /\ page_idx + 1 < num_pages
    /\ page_idx' = page_idx + 1
    /\ page' \in Pages
    /\ pc' = "page"
    /\ UNCHANGED <<NUMPY_AVAILABLE, OCR_AVAILABLE, dpi, num_pages,
                   slide_w_emu, slide_h_emu, text_blocks, use_ocr,
                   block_bboxes_for_render, slide, prs, total_textboxes, ocr_calls,
                   error, fontVars, classVars, ocrVars, eraseVars, applied>>

\* After the last page the presentation is returned and saved
\* (app.py:558, 673-682).
Finish ==
    /\ pc = "loop"
    /\ page_idx + 1 = num_pages
    /\ pc' = "done"
    /\ UNCHANGED <<NUMPY_AVAILABLE, OCR_AVAILABLE, dpi, num_pages, page_idx, page,
                   slide_w_emu, slide_h_emu, text_blocks, use_ocr,
                   block_bboxes_for_render, slide, prs, total_textboxes, ocr_calls,
                   error, fontVars, classVars, ocrVars, eraseVars, applied>>

Next ==
    \/ StartConversion
    \/ BeginPage
    \/ ExtractText
    \/ BuildBackground
    \/ PlaceTextboxes
    \/ EndPage
    \/ NextPage
    \/ Finish

Spec == Init /\ [][Next]_vars

-----------------------------------------------------------------------------
(* Claims about the conversion *)

\* C1: a page of zero width or height fails alone: it is left out of the
\* output, the other pages are converted, and the conversion completes; no
\* division by zero aborts the run.
C1_DegeneratePageSkipped == error = "none" /\ pc # "failed"

\* The scale factors applied to a non-negative page coordinate v (in 1/PtUnit
\* point): int(v * slide_w_emu / page_w) and int(v * slide_h_emu / page_h).
MapX(v) == (v * (slide_w_emu \div PtUnit)) \div page.w
MapY(v) == (v * (slide_h_emu \div PtUnit)) \div page.h

Placeable(b) ==
    /\ BBoxW(b.bbox) > 0 /\ BBoxH(b.bbox) > 0
    /\ MapX(BBoxW(b.bbox)) >= 5000 /\ MapY(BBoxH(b.bbox)) >= 5000

DiscreteImages ==
    {i \in DOMAIN page.images :
        ~is_background_image(page.images[i], Points(page.w), Points(page.h))}

\* C2 as stated: the slide of a page carries, besides its background, one
\* overlay for each image of the page classified Discrete.
C2_DiscreteImagesOverlaid ==
    pc = "page_done" => Len(slide.pictures) = 1 + Cardinality(DiscreteImages)

\* C2, amended: the slide of a page carries exactly one picture, the
\* background over the whole canvas, whatever images the page holds; on a
\* page with structural text it carries one text box for each kept block of
\* positive extent whose mapped width and height reach 5000 EMU, at the
\* block's origin mapped through the page's scale factors, 50000 EMU larger
\* than the mapped extent, with the block's text.
C2_BackgroundAndTextOnly ==
    pc = "page_done" =>
        /\ Len(slide.pictures) = 1
        /\ slide.pictures[1].left = 0 /\ slide.pictures[1].top = 0
        /\ slide.pictures[1].width = slide_w_emu
        /\ slide.pictures[1].height = slide_h_emu
        /\ ~use_ocr =>
              LET good == SelectSeq(SelectSeq(page.blocks, keep_block), Placeable)
              IN  /\ Len(slide.textboxes) = Len(good)
                  /\ \A i \in 1..Len(good) :
                        /\ slide.textboxes[i].left = MapX(good[i].bbox[1])
                        /\ slide.textboxes[i].top = MapY(good[i].bbox[2])
                        /\ slide.textboxes[i].width = MapX(BBoxW(good[i].bbox)) + 50000
                        /\ slide.textboxes[i].height = MapY(BBoxH(good[i].bbox)) + 50000
                        /\ slide.textboxes[i].paragraphs[1][1].text
                              = good[i].lines[1].spans[1].text

\* The one-page scenario: a full-page image, an image of 5% of the page and
\* the block "Hello World" give one background and one text box, at
\* (10 pt, 10 pt) on the canvas.
C2_Witness ==
    /\ pc = "page_done" /\ num_pages = 1
    /\ page.w = 100 /\ page.h = 100
    /\ page.images = <<FullImage, SmallImage>>
    /\ DiscreteImages = {2}
    /\ page.blocks = <<TextBlock(NormalBox, HelloWorld)>>
    /\ Len(slide.pictures) = 1
    /\ Len(slide.textboxes) = 1
    /\ slide.textboxes[1].left = 127000 /\ slide.textboxes[1].top = 127000
    /\ slide.textboxes[1].width = 685000 /\ slide.textboxes[1].height = 304000
    /\ slide.textboxes[1].paragraphs[1][1].text = HelloWorld

\* C8: without the pixel-buffer capability every page still gets exactly one
\* background, the unmodified render, no error is raised, and the text boxes
\* are placed.
C8_PlainBackgroundWithoutNumpy ==
    ~NUMPY_AVAILABLE =>
        /\ error = "none"
        /\ pc \in {"textboxes", "page_done"} =>
              /\ Len(slide.pictures) = 1
              /\ slide.pictures[1].image = render_page_image
        /\ \A i \in 1..Len(prs) : prs[i].pictures = 1 /\ prs[i].bg = "render"

\* C9: the engine is called only on a page whose filtered structural blocks
\* are none; in each pass the mixed-language model is called first, and the
\* single-language model only directly after a failed mixed-language call of
\* the same pass; nothing is called after a successful call of a pass.
C9_MixedFirstSingleAfterFailure ==
    \A i \in 1..Len(ocr_calls) :
        LET c == ocr_calls[i]
        IN  /\ c.page = page_idx
            /\ c.blocks = 0
            /\ SelectSeq(page.blocks, keep_block) = <<>>
            /\ c.lang \in {MixedLang, SingleLang}
            /\ c.lang = MixedLang => (i = 1 \/ ocr_calls[i-1].pass # c.pass)
            /\ c.lang = SingleLang =>
                  /\ i > 1
                  /\ ocr_calls[i-1].pass = c.pass
                  /\ ocr_calls[i-1].lang = MixedLang
                  /\ ~ocr_calls[i-1].ok
            /\ (i > 1 /\ ocr_calls[i-1].ok) => ocr_calls[i-1].pass # c.pass

\* A pass in which the mixed-language call failed and the single-language
\* call was made after it.
C9_Witness ==
    /\ Len(ocr_calls) >= 2
    /\ ocr_calls[1].lang = MixedLang /\ ~ocr_calls[1].ok
    /\ ocr_calls[2].lang = SingleLang /\ ocr_calls[2].pass = ocr_calls[1].pass

\* Both calls of a pass of the page failed.
PassFailed(pass) ==
    \E i \in 1..Len(ocr_calls) :
        ocr_calls[i].pass = pass /\ ocr_calls[i].lang = SingleLang /\ ~ocr_calls[i].ok

\* The text boxes of the slides finished before this page.
PlacedBefore == SumSeq([i \in 1..Len(prs) |-> prs[i].textboxes])

\* C10 as stated: on a page that needs recognition, when the capability is
\* missing or both calls fail in either pass, the slide has its background
\* and no text box, the count is unchanged and no error is raised.
C10_FailedPassLeavesNoOverlay ==
    (/\ pc = "page_done" /\ use_ocr
     /\ (~OCR_AVAILABLE \/ PassFailed("bboxes") \/ PassFailed("textboxes")))
    => /\ Len(slide.pictures) = 1
       /\ slide.textboxes = <<>>
       /\ total_textboxes = PlacedBefore
       /\ error = "none"

\* C10, amended: each pass degrades alone.  When the capability is missing
\* or both calls of the bbox pass fail, the background is the unmodified
\* render; when the capability is missing or both calls of the text-box pass
\* fail, the slide has no text box and the count is unchanged; in both cases
\* no error is raised and the page is finished.
C10_FailedPassDegradesAlone ==
    /\ (/\ pc \in {"textboxes", "page_done"} /\ use_ocr
        /\ (~OCR_AVAILABLE \/ PassFailed("bboxes")))
       => /\ Len(slide.pictures) = 1
          /\ slide.pictures[1].image = render_page_image
          /\ error = "none"
    /\ (/\ pc = "page_done" /\ use_ocr
        /\ (~OCR_AVAILABLE \/ PassFailed("textboxes")))
       => /\ Len(slide.pictures) = 1
          /\ slide.textboxes = <<>>
          /\ total_textboxes = PlacedBefore
          /\ error = "none"

\* Both calls of the text-box pass failed on a page where recognition is
\* available, and the finished slide has a background and no text box.
C10_Witness ==
    /\ pc = "page_done" /\ use_ocr /\ OCR_AVAILABLE
    /\ PassFailed("textboxes")
    /\ Len(slide.pictures) = 1
    /\ slide.textboxes = <<>>

\* The text blocks of the page that span the whole page.
WholePageBlocks ==
    {i \in DOMAIN text_blocks :
        text_blocks[i].bbox = <<0, 0, Points(page.w), Points(page.h)>>}

\* C11: the canvas is derived from the first page and never changes during a
\* conversion; on every page, whatever its size, the background is placed at
\* (0, 0, canvas width, canvas height), and the scale factors are canvas
\* width / page width and canvas height / page height, so that a text bbox
\* spanning the whole page maps onto the whole canvas (its text box is the
\* canvas, plus the slack of the text boxes).
C11_OneCanvas ==
    /\ [](pc = "page" /\ page_idx = 0 =>
             /\ slide_w_emu = page.w * EmuPerPoint
             /\ slide_h_emu = page.h * EmuPerPoint)
    /\ [][pc # "idle" => slide_w_emu' = slide_w_emu /\ slide_h_emu' = slide_h_emu]_vars
    /\ [](pc \in {"textboxes", "page_done"} =>
             \A i \in 1..Len(slide.pictures) :
                 /\ slide.pictures[i].left = 0 /\ slide.pictures[i].top = 0
                 /\ slide.pictures[i].width = slide_w_emu
                 /\ slide.pictures[i].height = slide_h_emu)
    /\ [](pc = "page_done" /\ ~use_ocr =>
             \A i \in WholePageBlocks :
                 \E j \in 1..Len(slide.textboxes) :
                     /\ slide.textboxes[j].left = 0 /\ slide.textboxes[j].top = 0
                     /\ slide.textboxes[j].width = slide_w_emu + BoxSlackEmu
                     /\ slide.textboxes[j].height = slide_h_emu + BoxSlackEmu)

\* The second page, 100 x 100, of a document whose first page and canvas are
\* 400 x 100: its background and its whole-page text block cover the canvas.
C11_Witness ==
    /\ pc = "page_done" /\ page_idx = 1
    /\ page.w = 100 /\ page.h = 100
    /\ slide_w_emu = 400 * EmuPerPoint /\ slide_h_emu = 100 * EmuPerPoint
    /\ WholePageBlocks # {}
    /\ slide.pictures[1].width = 5080000 /\ slide.pictures[1].height = 1270000
    /\ slide.textboxes[1].left = 0
    /\ slide.textboxes[1].width = 5080000 + BoxSlackEmu

\* The regions erased from the background of the slide, and the regions of
\* its text boxes without their slack, both in canvas space.
ErasedRegions ==
    LET boxes == slide.pictures[1].image.boxes
    IN  {<<MapX(boxes[i][1]), MapY(boxes[i][2]),
           MapX(BBoxW(boxes[i])), MapY(BBoxH(boxes[i]))>> : i \in DOMAIN boxes}

OverlayRegions ==
    LET slack_w == IF use_ocr THEN OcrSlackWEmu ELSE BoxSlackEmu
    IN  {<<slide.textboxes[j].left, slide.textboxes[j].top,
           slide.textboxes[j].width - slack_w,
           slide.textboxes[j].height - BoxSlackEmu>> : j \in DOMAIN slide.textboxes}

\* C12: on a page converted with erasure active, the text regions erased
\* from the background are exactly the text regions that get a text box:
\* none is erased without a text box, and no text box covers a region that
\* was not erased.
C12_ErasedEqualsOverlaid ==
    (pc = "page_done" /\ slide.pictures[1].image.kind = "erased")
    => ErasedRegions = OverlayRegions

\* C13: whether the background of a page is text-erased depends only on the
\* pixel-buffer capability and on the page having at least one text box; in
\* particular a page with a non-empty structural text block gets the erased
\* background whenever the pixel-buffer capability is available, whether or
\* not the recognition capability is.
C13_ErasureIgnoresRecognitionFlag ==
    pc \in {"textboxes", "page_done"} =>
        /\ slide.pictures[1].image.kind = "erased"
              <=> (NUMPY_AVAILABLE /\ block_bboxes_for_render # <<>>)
        /\ (NUMPY_AVAILABLE /\ text_blocks # <<>>)
              => /\ slide.pictures[1].image.kind = "erased"
                 /\ slide.pictures[1].image.boxes
                       = [i \in 1..Len(text_blocks) |-> text_blocks[i].bbox]

====
